---- MODULE Spec2Model ----
(***************************************************************************)
(* Workflow orchestration core of multi-agent-system:                      *)
(*   lib/AgentOrchestrator.js  (registries, executeWorkflow,               *)
(*                              executeWithRetry, handleEscalation)        *)
(*   lib/BaseAgent.js          (state, metrics, bounded history)           *)
(*   agents/*.js               (the common shape of process(task))         *)
(* and the standalone service orchestrator-agent/server.js (pause/resume). *)
(*                                                                         *)
(* The runtime is one event loop: code between two awaits runs without     *)
(* interruption.  Each action below is one such uninterrupted run; an      *)
(* execution's position between runs is its pc.                            *)
(***************************************************************************)
EXTENDS Integers, Sequences, FiniteSets, TLC

(***************************************************************************)
(* Bounds of the model.                                                    *)
(***************************************************************************)
\* AgentOrchestrator.js:11 sets the cap to 10; the model scales it down.
maxConcurrentTasks == 2
\* call slots: enough to fill the cap, be refused once, and be admitted again
NumExec == 3
\* calls the sequential client of Spec makes
NumSeq == 1
\* BaseAgent.js:68 keeps the last 100 entries; the model scales it down.
HistoryCap == 2
\* largest maxRetries handed to a direct executeWithRetry call
MaxRetriesArg == 3

Execs == 1..NumExec
\* requests the orchestrator-agent service answers in one run
MaxRequests == 5

(***************************************************************************)
(* Agents.  A and H have the shape of the repository's concrete agents     *)
(* (validateTask outside the try, every handler error caught by            *)
(* handleError).  B is a subclass whose process may also reject the call   *)
(* with a raised error, as BaseAgent.process itself does.                  *)
(***************************************************************************)
AgentNames == {"A", "B", "H"}
RaisingAgents == {"B"}
NoAgent == ""

\* the busy marker each agent sets at entry of process
BusyMarker == "processing"

(***************************************************************************)
(* Tasks: type is a string ("" = missing), data a payload token            *)
(* (0 = missing / falsy).                                                  *)
(***************************************************************************)
NoData == 0
NoConfig == 0
InitialTasks ==
  { [type |-> "x", data |-> 1, stepName |-> "", stepConfig |-> NoConfig],
    [type |-> "x", data |-> NoData, stepName |-> "", stepConfig |-> NoConfig],
    [type |-> "",  data |-> 1, stepName |-> "", stepConfig |-> NoConfig] }

\* a task argument that is not an object (null, a string, ...): reading a
\* field of it gives nothing
NotAnObject ==
  [type |-> "", data |-> NoData, stepName |-> "", stepConfig |-> NoConfig,
   notObject |-> TRUE]
IsObject(task) == "notObject" \notin DOMAIN task

\* the task arguments of direct agent.process calls
DirectTasks == InitialTasks \cup {NotAnObject}

\* payload a successful handler of agent a returns
DataOf(a) == CASE a = "A" -> 2 [] a = "B" -> 3 [] OTHER -> 4

\* BaseAgent.validateTask: TRUE when it returns, FALSE when it throws
validateTask(task) ==
  IsObject(task) /\ task.type # "" /\ task.data # NoData

(***************************************************************************)
(* Workflow definitions offered to registerWorkflow.  retries = 0 stands   *)
(* for a step that does not specify retries.                               *)
(***************************************************************************)
\* the config object of the step named n
ConfigOf(n) == CASE n = "s1" -> 11 [] n = "s2" -> 12 [] OTHER -> 13

Step(n, a, r, esc) ==
  [name |-> n, agentName |-> a, config |-> ConfigOf(n), retries |-> r,
   escalateOnFailure |-> esc]

WorkflowDefs ==
  { [name |-> "wf",
     steps |-> << Step("s1", "A", 2, FALSE), Step("s2", "B", 0, TRUE),
                  Step("s3", "A", 1, FALSE) >>,
     escalationHandler |-> "H"],
    [name |-> "wf",
     steps |-> << Step("s1", "B", 3, FALSE), Step("s2", "A", 1, TRUE) >>,
     escalationHandler |-> "B"],
    [name |-> "wf",
     steps |-> << Step("s1", "A", 1, TRUE) >>,
     escalationHandler |-> NoAgent] }

\* the definition registered in the service under load
LoadDefs ==
  { [name |-> "wf",
     steps |-> << Step("s1", "A", 2, TRUE) >>,
     escalationHandler |-> "H"] }

\* a definition none of whose steps escalates
SoftDefs ==
  { [name |-> "wf",
     steps |-> << Step("s1", "B", 2, FALSE), Step("s2", "A", 0, FALSE) >>,
     escalationHandler |-> "H"] }

\* the tasks its clients send: a valid one and one without data
LoadTasks == {t \in InitialTasks : t.type # ""}

WorkflowNames == {"wf"}
\* every name a workflow is ever registered under
RegistryNames == WorkflowNames \cup {"wf2"}
UnknownWorkflow == "ghost"
NoWorkflow == [name |-> "", steps |-> << >>, escalationHandler |-> NoAgent]

(***************************************************************************)
(* State.                                                                  *)
(***************************************************************************)
VARIABLES
  agents,            \* AgentOrchestrator.agents: the registered names
  agentObj,          \* AgentOrchestrator.agents: name -> the agent object
                     \* registered under it (NoObject: none)
  registerError,     \* the error the last registerAgent call threw
  workflows,         \* AgentOrchestrator.workflows: name -> definition
  activeTasksCount,  \* AgentOrchestrator.activeTasksCount
  ag,                \* the agent objects: state, metrics, history
  ex,                \* the admitted executeWorkflow calls (and direct
                     \* executeWithRetry calls), one record per call
  refused,           \* the last executeWorkflow call that threw before
                     \* it was admitted
  orchestratorAgent  \* the standalone orchestrator-agent service: its
                     \* OrchestratorState object and the responses it sent

vars == << agents, agentObj, registerError, workflows, activeTasksCount, ag,
          ex, refused, orchestratorAgent >>

NoTask == [type |-> "", data |-> NoData, stepName |-> "", stepConfig |-> NoConfig]
NoPend == [kind |-> "none", data |-> NoData, agent |-> NoAgent]
\* a rejected promise
Rejection == [kind |-> "raise", data |-> NoData, agent |-> NoAgent]

NoEscData ==
  [workflow |-> "", failedStep |-> "", error |-> NoPend,
   previousResults |-> << >>]

\* a call slot before the call is made
IdleExec ==
  [ pc        |-> "idle",
    mode      |-> "none",       \* "workflow" | "retry" | "process" (direct calls)
    wfName    |-> "",
    workflow  |-> NoWorkflow,   \* const workflow of executeWorkflow
    task      |-> NoTask,       \* currentTask
    initial   |-> NoTask,       \* initialTask
    step      |-> 0,            \* position of the for-of loop (1-based)
    agent     |-> NoAgent,      \* agent of the running executeWithRetry
    maxRetries|-> 0,
    attempt   |-> 0,
    sent      |-> NoTask,       \* the task handed to agent.process
    pend      |-> NoPend,       \* settled value of the awaited promise
    results   |-> << >>,
    outcome   |-> "none",
    retval    |-> NoPend,       \* what executeWithRetry returned
    \* history of the call, kept for the properties
    admitted  |-> FALSE,
    decs      |-> 0,            \* executions of activeTasksCount--
    invoked   |-> << >>,        \* step index of every agent.process call
    raises    |-> 0,            \* attempts of the current step that raised
    lastError |-> 0,            \* attempt whose error lastError holds
    sleeps    |-> << >>,        \* every backoff wait, in ms
    handlerCalls |-> 0,         \* calls of the escalation handler
    escKind   |-> "none",       \* which return of handleEscalation was taken
    escData   |-> NoEscData ]   \* data of the task handed to the handler

NoRefusal == [wfName |-> "", error |-> "none"]

\* the agent objects constructed under one name, and no object
AgentObjects == {1, 2}
NoObject == 0
NoRegisterError == [name |-> "", obj |-> NoObject, error |-> "none"]

\* BaseAgent constructor
NewAgent ==
  [ state |-> "idle", tasksProcessed |-> 0, errors |-> 0, history |-> << >>,
    \* history of the object, kept for the properties: the process() calls
    \* that passed validateTask and settled, and those of them that failed
    calls |-> 0, failed |-> 0,
    \* every entry recordTask was given, in recording order
    log |-> << >> ]

(***************************************************************************)
(* BaseAgent methods, as functions on one agent object.                    *)
(***************************************************************************)
setState(o, newState) == [o EXCEPT !.state = newState]

updateMetrics(o, error) ==
  [o EXCEPT !.tasksProcessed = @ + 1,
            !.errors = IF error THEN @ + 1 ELSE @]

\* recordTask that shifts as soon as the history is full
recordTaskEvictsEarly(o, entry) ==
  LET pushed == Append(o.history, entry)
  IN  [o EXCEPT !.history = IF Len(pushed) >= HistoryCap THEN Tail(pushed)
                            ELSE pushed,
                !.log = Append(@, entry)]
recordTask(o, entry) ==
  LET pushed == Append(o.history, entry)
  IN  [o EXCEPT !.history = IF Len(pushed) > HistoryCap THEN Tail(pushed)
                            ELSE pushed,
                !.log = Append(@, entry)]

\* the entry pushed for a task and the result computed for it
HistoryEntry(task, d) == [task |-> task.stepName, result |-> d]

\* getStatus(): what it returns of the object (name and role are fixed)
getStatus(o) ==
  [state |-> o.state,
   metrics |-> [tasksProcessed |-> o.tasksProcessed, errors |-> o.errors],
   historySize |-> Len(o.history)]

\* handleError without its setState('error')
handleErrorKeepsState(o) == updateMetrics(o, TRUE)
handleError(o) == setState(updateMetrics(o, TRUE), "error")

\* reset(): state and conversation history are cleared, metrics are kept
resetClearsMetrics(o) ==
  [o EXCEPT !.state = "idle", !.history = << >>,
            !.tasksProcessed = 0, !.errors = 0]
reset(o) == [o EXCEPT !.state = "idle", !.history = << >>]

\* the tail of process() after the handler returned normally
processSuccess(o, entry) ==
  setState(recordTask(updateMetrics(o, FALSE), entry), "idle")

\* does the call agent.process(task) reject with a raised error?
\* r is the choice of an agent that may raise on its own.
processRaises(a, task, r) ==
  \/ ~validateTask(task)
  \/ a \in RaisingAgents /\ r

\* payloads a successful call of agent a may return
ResultData(a) == IF a \in RaisingAgents THEN {DataOf(a), NoData} ELSE {DataOf(a)}

(***************************************************************************)
(* Pieces of executeWorkflow / executeWithRetry, as functions on the       *)
(* record of one call.  Each returns the record after the piece ran and    *)
(* the agent (if any) whose process() was entered.                         *)
(***************************************************************************)
RECURSIVE Pow2(_)
Pow2(n) == IF n <= 0 THEN 1 ELSE 2 * Pow2(n - 1)

\* Math.pow(2, attempt) * 100
BackoffFromZero(attempt) == Pow2(attempt - 1) * 100
Backoff(attempt) == Pow2(attempt) * 100

\* the finally block of executeWorkflow, leaving the function with outcome o
ExitLeak(x, o) ==
  [x EXCEPT !.pc = "done", !.outcome = o,
            !.decs = IF o = "raised" THEN @ ELSE @ + 1]
Exit(x, o) == [x EXCEPT !.pc = "done", !.outcome = o, !.decs = @ + 1]

\* agent.process(x.sent) is called: validateTask, then setState(busy)
AttemptValidatesLate(x, r) ==
  IF processRaises(x.agent, x.sent, r)
  THEN [x |-> [x EXCEPT !.pc = "settled",
                        !.pend = Rejection,
                        !.invoked = Append(@, x.step)],
        busy |-> x.agent]
  ELSE [x |-> [x EXCEPT !.pc = "processing", !.pend = NoPend,
                        !.invoked = Append(@, x.step)],
        busy |-> x.agent]
Attempt(x, r) ==
  IF processRaises(x.agent, x.sent, r)
  THEN [x |-> [x EXCEPT !.pc = "settled",
                        !.pend = Rejection,
                        !.invoked = Append(@, x.step)],
        busy |-> NoAgent]
  ELSE [x |-> [x EXCEPT !.pc = "processing", !.pend = NoPend,
                        !.invoked = Append(@, x.step)],
        busy |-> x.agent]

\* step.retries || 1
RetryBudgetDefault3(st) == IF st.retries = 0 THEN 3 ELSE st.retries
RetryBudget(st) == IF st.retries = 0 THEN 1 ELSE st.retries

\* { ...currentTask, stepName: step.name, stepConfig: step.config }
StepTaskWithoutConfig(task, st) ==
  [type |-> task.type, data |-> task.data, stepName |-> st.name,
   stepConfig |-> task.stepConfig]
StepTask(task, st) ==
  [type |-> task.type, data |-> task.data, stepName |-> st.name,
   stepConfig |-> st.config]

\* head of the for-of loop at step x.step: resolve the agent, call
\* executeWithRetry, or leave the loop and return success
LoopSkipsLast(x, r) ==
  IF x.step >= Len(x.workflow.steps)
  THEN [x |-> Exit(x, "completed"), busy |-> NoAgent]
  ELSE LET st == x.workflow.steps[x.step]
       IN  IF st.agentName \notin agents
           THEN [x |-> Exit(x, "agentNotFound"), busy |-> NoAgent]
           ELSE Attempt([x EXCEPT !.agent = st.agentName,
                                  !.maxRetries = RetryBudget(st),
                                  !.attempt = 1, !.lastError = 0,
                                  !.raises = 0,
                                  !.sent = StepTask(x.task, st)], r)
LoopBreaksOnMissing(x, r) ==
  IF x.step > Len(x.workflow.steps)
  THEN [x |-> Exit(x, "completed"), busy |-> NoAgent]
  ELSE LET st == x.workflow.steps[x.step]
       IN  IF st.agentName \notin agents
           THEN [x |-> Exit(x, "completed"), busy |-> NoAgent]
           ELSE Attempt([x EXCEPT !.agent = st.agentName,
                                  !.maxRetries = RetryBudget(st),
                                  !.attempt = 1, !.lastError = 0,
                                  !.raises = 0,
                                  !.sent = StepTask(x.task, st)], r)
\* every remaining step's agent resolved before the step at hand runs
LoopBindsEarly(x, r) ==
  IF x.step > Len(x.workflow.steps)
  THEN [x |-> Exit(x, "completed"), busy |-> NoAgent]
  ELSE LET st == x.workflow.steps[x.step]
       IN  IF \E j \in x.step..Len(x.workflow.steps) :
                 x.workflow.steps[j].agentName \notin agents
           THEN [x |-> Exit(x, "agentNotFound"), busy |-> NoAgent]
           ELSE Attempt([x EXCEPT !.agent = st.agentName,
                                  !.maxRetries = RetryBudget(st),
                                  !.attempt = 1, !.lastError = 0,
                                  !.raises = 0,
                                  !.sent = StepTask(x.task, st)], r)
\* the return after the loop made to depend on the recorded results
LoopSuccessNeedsAll(x, r) ==
  IF x.step > Len(x.workflow.steps)
  THEN [x |-> Exit(x, IF \A i \in 1..Len(x.results) : x.results[i].success
                      THEN "completed" ELSE "failed"),
        busy |-> NoAgent]
  ELSE LET st == x.workflow.steps[x.step]
       IN  IF st.agentName \notin agents
           THEN [x |-> Exit(x, "agentNotFound"), busy |-> NoAgent]
           ELSE Attempt([x EXCEPT !.agent = st.agentName,
                                  !.maxRetries = RetryBudget(st),
                                  !.attempt = 1, !.lastError = 0,
                                  !.raises = 0,
                                  !.sent = StepTask(x.task, st)], r)
Loop(x, r) ==
  IF x.step > Len(x.workflow.steps)
  THEN [x |-> Exit(x, "completed"), busy |-> NoAgent]
  ELSE LET st == x.workflow.steps[x.step]
       IN  IF st.agentName \notin agents
           THEN [x |-> Exit(x, "agentNotFound"), busy |-> NoAgent]
           ELSE Attempt([x EXCEPT !.agent = st.agentName,
                                  !.maxRetries = RetryBudget(st),
                                  !.attempt = 1, !.lastError = 0,
                                  !.raises = 0,
                                  !.sent = StepTask(x.task, st)], r)

\* handleEscalation up to its first await, followed by the finally block of
\* executeWorkflow: "return this.handleEscalation(...)" does not await, so
\* activeTasksCount-- runs before the handler's promise settles
EscalationTask ==
  [type |-> "escalation", data |-> 9, stepName |-> "", stepConfig |-> NoConfig]

\* data of the task handleEscalation builds for the handler
EscalationData(x) ==
  [workflow |-> x.workflow.name,
   failedStep |-> x.workflow.steps[x.step].name,
   error |-> x.retval,
   previousResults |-> x.results]

handleEscalationNoLookup(x, r) ==
  LET h == x.workflow.escalationHandler
      y == [x EXCEPT !.decs = @ + 1]
  IN  IF h # NoAgent
      THEN IF processRaises(h, EscalationTask, r)
           THEN [x |-> [y EXCEPT !.pc = "escSettled", !.agent = h,
                                 !.sent = EscalationTask,
                                 !.escData = EscalationData(x),
                                 !.pend = Rejection,
                                 !.handlerCalls = @ + 1],
                 busy |-> NoAgent]
           ELSE [x |-> [y EXCEPT !.pc = "escalating", !.agent = h,
                                 !.sent = EscalationTask,
                                 !.escData = EscalationData(x),
                                 !.pend = NoPend,
                                 !.handlerCalls = @ + 1],
                 busy |-> h]
      ELSE [x |-> [y EXCEPT !.pc = "done", !.outcome = "escalated",
                            !.escKind = "default"],
            busy |-> NoAgent]
handleEscalation(x, r) ==
  LET h == x.workflow.escalationHandler
      y == [x EXCEPT !.decs = @ + 1]
  IN  IF h # NoAgent /\ h \in agents
      THEN IF processRaises(h, EscalationTask, r)
           THEN [x |-> [y EXCEPT !.pc = "escSettled", !.agent = h,
                                 !.sent = EscalationTask,
                                 !.escData = EscalationData(x),
                                 !.pend = Rejection,
                                 !.handlerCalls = @ + 1],
                 busy |-> NoAgent]
           ELSE [x |-> [y EXCEPT !.pc = "escalating", !.agent = h,
                                 !.sent = EscalationTask,
                                 !.escData = EscalationData(x),
                                 !.pend = NoPend,
                                 !.handlerCalls = @ + 1],
                 busy |-> h]
      ELSE [x |-> [y EXCEPT !.pc = "done", !.outcome = "escalated",
                            !.escKind = "default"],
            busy |-> NoAgent]

\* if (stepResult.data) currentTask = { ...currentTask, data: stepResult.data }
ThreadDataNever(task, res) == task
ThreadData(task, res) ==
  IF res.data # NoData THEN [task EXCEPT !.data = res.data] ELSE task

\* the body of the for-of loop after "await this.executeWithRetry(...)"
\* returned x.retval: push, escalate or thread the data and go on
AfterStepNoEscalation(x, r) ==
  LET st  == x.workflow.steps[x.step]
      res == x.retval
  IN  Loop([x EXCEPT
              !.results = Append(@, [step |-> st.name, agent |-> st.agentName,
                                     success |-> (res.kind = "ok"),
                                     data |-> res.data]),
              !.task = ThreadData(@, res),
              !.step = @ + 1], r)
AfterStep(x, r) ==
  LET st  == x.workflow.steps[x.step]
      res == x.retval
      pushed == [x EXCEPT !.results =
                   Append(@, [step |-> st.name, agent |-> st.agentName,
                              success |-> (res.kind = "ok"),
                              data |-> res.data])]
  IN  IF res.kind # "ok" /\ st.escalateOnFailure
      THEN handleEscalation(pushed, r)
      ELSE Loop([pushed EXCEPT
                   !.task = ThreadData(@, res),
                   !.step = @ + 1], r)

\* effect of one piece on the shared state
Commit(e, out) ==
  /\ ex' = [ex EXCEPT ![e] = out.x]
  /\ activeTasksCount' = activeTasksCount - (out.x.decs - ex[e].decs)
  /\ ag' = IF out.busy # NoAgent
           THEN [ag EXCEPT ![out.busy] = setState(@, BusyMarker)]
           ELSE ag

(***************************************************************************)
(* The standalone orchestrator-agent service (orchestrator-agent/server.js).*)
(* A string is modelled by its length, a value that is not a string by     *)
(* NotAString, a workflow that is not an array by NotAnArray.              *)
(***************************************************************************)
MaxWorkflowSteps == 50
MaxStepLength == 100
MaxInputLength == 10000
MaxOutputLength == 50000
\* the characters `Processed by ${step}: ${output}` adds to step and output
WrapperLength == 15

NotAString == -1
NoResult == NotAString
LongWorkflow == [i \in 1..(MaxWorkflowSteps + 1) |-> 5]

\* the request bodies sent to POST /orchestrate; a missing workflow is [],
\* a missing input is ''
OrchestrateBodies ==
  [workflowIsArray : {TRUE},
   workflow : { << >>, << 5, MaxStepLength >>, << 0 >>,
                << 5, MaxStepLength + 1 >>, << NotAString >>, LongWorkflow },
   input : {0, MaxInputLength, MaxInputLength + 1, NotAString}]
  \cup [workflowIsArray : {FALSE}, workflow : {<< >>}, input : {0, NotAString}]
NoBody == [workflowIsArray |-> TRUE, workflow |-> << >>, input |-> 0]

\* class OrchestratorState
NewOrchestratorState == [status |-> "ready"]
setStatus(st, newStatus) ==
  IF newStatus \in {"ready", "paused"}
  THEN [ok |-> TRUE, st |-> [st EXCEPT !.status = newStatus]]
  ELSE [ok |-> FALSE, st |-> st]
isPaused(st) == st.status = "paused"

Response(route, code, err, result, steps, status) ==
  [route |-> route, code |-> code, error |-> err, result |-> result,
   steps |-> steps, status |-> status]
ErrorResponse(route, code, err) == Response(route, code, err, NoResult, 0, "")
NoResponse == Response("", 0, "none", NoResult, 0, "")

\* the service before its first request: no exchange yet
NewOrchestratorAgent ==
  [state |-> NewOrchestratorState,
   \* route and status code of every response sent, in order
   log |-> << >>,
   \* body of the last request and the response to it
   body |-> NoBody, response |-> NoResponse]

\* the validation of POST /orchestrate: the error it answers with, or "none"
ValidationError(body) ==
  IF ~body.workflowIsArray THEN "workflowNotArray"
  ELSE IF Len(body.workflow) > MaxWorkflowSteps THEN "workflowTooLong"
  ELSE IF \E i \in 1..Len(body.workflow) :
            \/ body.workflow[i] = NotAString
            \/ body.workflow[i] <= 0
            \/ body.workflow[i] > MaxStepLength
       THEN "invalidStep"
  ELSE IF body.input = NotAString THEN "inputNotString"
  ELSE IF body.input > MaxInputLength THEN "inputTooLong"
  ELSE "none"

\* the processing loop from step i on: the length of the output, or
\* NoResult when the output exceeded the maximum length
RECURSIVE ProcessWorkflow(_, _, _)
ProcessWorkflow(workflow, i, output) ==
  IF i > Len(workflow) THEN output
  ELSE LET wrapped == WrapperLength + workflow[i] + output
       IN  IF wrapped > MaxOutputLength THEN NoResult
           ELSE ProcessWorkflow(workflow, i + 1, wrapped)

\* the response of POST /orchestrate
orchestratePauseFirst(st, body) ==
  IF isPaused(st)
  THEN ErrorResponse("orchestrate", 503, "paused")
  ELSE IF ValidationError(body) # "none"
  THEN ErrorResponse("orchestrate", 400, ValidationError(body))
  ELSE LET output == ProcessWorkflow(body.workflow, 1, body.input)
       IN  IF output = NoResult
           THEN ErrorResponse("orchestrate", 413, "outputTooLong")
           ELSE Response("orchestrate", 200, "none", output,
                         Len(body.workflow), "")
orchestrate(st, body) ==
  IF ValidationError(body) # "none"
  THEN ErrorResponse("orchestrate", 400, ValidationError(body))
  ELSE IF isPaused(st)
  THEN ErrorResponse("orchestrate", 503, "paused")
  ELSE LET output == ProcessWorkflow(body.workflow, 1, body.input)
       IN  IF output = NoResult
           THEN ErrorResponse("orchestrate", 413, "outputTooLong")
           ELSE Response("orchestrate", 200, "none", output,
                         Len(body.workflow), "")

CanServe == Len(orchestratorAgent.log) < MaxRequests

Respond(st, body, response) ==
  /\ orchestratorAgent' =
       [state |-> st,
        log |-> Append(orchestratorAgent.log,
                       [route |-> response.route, code |-> response.code]),
        body |-> body, response |-> response]
  /\ UNCHANGED << agents, agentObj, registerError, workflows,
                  activeTasksCount, ag, ex, refused >>

postOrchestrate(body) ==
  /\ CanServe
  /\ Respond(orchestratorAgent.state, body,
             orchestrate(orchestratorAgent.state, body))

\* POST /pause and POST /resume
SwitchTo(route, newStatus) ==
  /\ CanServe
  /\ LET set == setStatus(orchestratorAgent.state, newStatus)
     IN  Respond(set.st, NoBody,
                 IF set.ok
                 THEN Response(route, 200, "none", NoResult, 0, set.st.status)
                 ELSE ErrorResponse(route, 400, "failed"))

postPause == SwitchTo("pause", "paused")
postResume == SwitchTo("resume", "ready")

(***************************************************************************)
(* Initial state: the constructors.                                        *)
(***************************************************************************)
Init ==
  /\ agents = {}
  /\ agentObj = [a \in AgentNames |-> NoObject]
  /\ registerError = NoRegisterError
  /\ workflows = [n \in RegistryNames |-> NoWorkflow]
  /\ activeTasksCount = 0
  /\ ag = [a \in AgentNames |-> NewAgent]
  /\ ex = [e \in Execs |-> IdleExec]
  /\ refused = NoRefusal
  /\ orchestratorAgent = NewOrchestratorAgent

(***************************************************************************)
(* Registry operations.                                                    *)
(***************************************************************************)
\* registerAgent without the has() check
registerAgentOverwrites(a, o) ==
  /\ agents' = agents \cup {a}
  /\ agentObj' = [agentObj EXCEPT ![a] = o]
  /\ registerError' = NoRegisterError
  /\ UNCHANGED << orchestratorAgent, workflows, activeTasksCount, ag, ex, refused >>
\* registerAgent(agent) for the agent object o named a
registerAgent(a, o) ==
  /\ IF a \in agents
     THEN /\ registerError' = [name |-> a, obj |-> o, error |-> "duplicate"]
          /\ UNCHANGED << agents, agentObj >>
     ELSE /\ agents' = agents \cup {a}
          /\ agentObj' = [agentObj EXCEPT ![a] = o]
          /\ registerError' = NoRegisterError
  /\ UNCHANGED << orchestratorAgent, workflows, activeTasksCount, ag, ex, refused >>

\* this.workflows.set(name, workflow)
setWorkflowIfAbsent(ws, n, d) ==
  IF ws[n] = NoWorkflow THEN [ws EXCEPT ![n] = d] ELSE ws
setWorkflow(ws, n, d) == [ws EXCEPT ![n] = d]

registerWorkflow(n, d) ==
  /\ workflows' = setWorkflow(workflows, n, d)
  /\ UNCHANGED << orchestratorAgent, agents, agentObj, registerError,
                  activeTasksCount, ag, ex,
                  refused >>

\* the admission check of executeWorkflow
AtCapacityOffByOne == activeTasksCount > maxConcurrentTasks
AtCapacity == activeTasksCount >= maxConcurrentTasks

\* this.workflows.get(name)
LookupWorkflow(n) == IF n \in RegistryNames THEN workflows[n] ELSE NoWorkflow

(***************************************************************************)
(* executeWorkflow(name, task), from the call to its first await.          *)
(***************************************************************************)
\* slots are used in order: they are interchangeable
SlotFree(e) ==
  /\ ex[e].pc = "idle"
  /\ IF e = 1 THEN TRUE ELSE ex[e - 1].pc # "idle"

\* executeWorkflow throws before the call is admitted
RefuseAfterIncrement(n, err) ==
  /\ refused' = [wfName |-> n, error |-> err]
  /\ activeTasksCount' = activeTasksCount + 1
  /\ UNCHANGED << ag, ex >>
Refuse(n, err) ==
  /\ refused' = [wfName |-> n, error |-> err]
  /\ UNCHANGED << activeTasksCount, ag, ex >>

\* the capacity check placed before the lookup of the workflow
executeWorkflowCapacityFirst(e, n, task, r) ==
  /\ SlotFree(e)
  /\ LET wf == LookupWorkflow(n)
     IN  IF AtCapacity
         THEN Refuse(n, "capacity")
         ELSE IF wf = NoWorkflow
         THEN Refuse(n, "workflowNotFound")
         ELSE LET out == Loop([ex[e] EXCEPT !.mode = "workflow", !.wfName = n,
                                            !.workflow = wf, !.admitted = TRUE,
                                            !.initial = task,
                                            !.task = task, !.step = 1], r)
              IN  /\ ex' = [ex EXCEPT ![e] = out.x]
                  /\ activeTasksCount' = activeTasksCount + 1 - out.x.decs
                  /\ ag' = IF out.busy # NoAgent
                           THEN [ag EXCEPT ![out.busy] = setState(@, BusyMarker)]
                           ELSE ag
                  /\ refused' = refused
  /\ UNCHANGED << orchestratorAgent, agents, agentObj, registerError, workflows >>
executeWorkflow(e, n, task, r) ==
  /\ SlotFree(e)
  /\ LET wf == LookupWorkflow(n)
     IN  IF wf = NoWorkflow
         THEN Refuse(n, "workflowNotFound")
         ELSE IF AtCapacity
         THEN Refuse(n, "capacity")
         ELSE LET out == Loop([ex[e] EXCEPT !.mode = "workflow", !.wfName = n,
                                            !.workflow = wf, !.admitted = TRUE,
                                            !.initial = task,
                                            !.task = task, !.step = 1], r)
              IN  /\ ex' = [ex EXCEPT ![e] = out.x]
                  /\ activeTasksCount' = activeTasksCount + 1 - out.x.decs
                  /\ ag' = IF out.busy # NoAgent
                           THEN [ag EXCEPT ![out.busy] = setState(@, BusyMarker)]
                           ELSE ag
                  /\ refused' = refused
  /\ UNCHANGED << orchestratorAgent, agents, agentObj, registerError, workflows >>

(***************************************************************************)
(* agent.process resumes after its handler: success tail or handleError.   *)
(***************************************************************************)
\* process() without its try/catch: the handler's error leaves process()
AgentSettlesRethrows(e, fromPc, toPc, ok, d) ==
  /\ ex[e].pc = fromPc
  /\ LET a == ex[e].agent
     IN  /\ d \in ResultData(a)
         /\ ag' = [ag EXCEPT ![a] =
                     IF ok
                     THEN [processSuccess(@, HistoryEntry(ex[e].sent, d))
                             EXCEPT !.calls = @ + 1]
                     ELSE [@ EXCEPT !.calls = @ + 1, !.failed = @ + 1]]
         /\ ex' = [ex EXCEPT ![e].pc = toPc,
                             ![e].outcome = IF toPc = "done"
                                            THEN (IF ok THEN "returned" ELSE "threw")
                                            ELSE @,
                             ![e].pend = IF ok
                                         THEN [kind |-> "ok", data |-> d,
                                               agent |-> a]
                                         ELSE Rejection]
  /\ UNCHANGED << orchestratorAgent, agents, agentObj, registerError, workflows, activeTasksCount, refused >>
\* an agent that stays busy until the last of its calls in flight has ended
AgentSettlesWhenLast(e, fromPc, toPc, ok, d) ==
  /\ ex[e].pc = fromPc
  /\ LET a == ex[e].agent
         others == {f \in Execs \ {e} :
                      ex[f].agent = a /\ ex[f].pc \in {"processing", "escalating"}}
         end(o) == IF others = {} THEN o ELSE setState(o, BusyMarker)
     IN  /\ d \in ResultData(a)
         /\ ag' = [ag EXCEPT ![a] =
                     IF ok
                     THEN [end(processSuccess(@, HistoryEntry(ex[e].sent, d)))
                             EXCEPT !.calls = @ + 1]
                     ELSE [end(handleError(@))
                             EXCEPT !.calls = @ + 1, !.failed = @ + 1]]
         /\ ex' = [ex EXCEPT ![e].pc = toPc,
                             ![e].outcome = IF toPc = "done" THEN "returned"
                                            ELSE @,
                             ![e].pend = IF ok
                                         THEN [kind |-> "ok", data |-> d,
                                               agent |-> a]
                                         ELSE [kind |-> "fail", data |-> NoData,
                                               agent |-> a]]
  /\ UNCHANGED << orchestratorAgent, agents, agentObj, registerError, workflows, activeTasksCount, refused >>
AgentSettles(e, fromPc, toPc, ok, d) ==
  /\ ex[e].pc = fromPc
  /\ LET a == ex[e].agent
     IN  /\ d \in ResultData(a)
         /\ ag' = [ag EXCEPT ![a] =
                     IF ok
                     THEN [processSuccess(@, HistoryEntry(ex[e].sent, d))
                             EXCEPT !.calls = @ + 1]
                     ELSE [handleError(@)
                             EXCEPT !.calls = @ + 1, !.failed = @ + 1]]
         /\ ex' = [ex EXCEPT ![e].pc = toPc,
                             ![e].outcome = IF toPc = "done" THEN "returned"
                                            ELSE @,
                             ![e].pend = IF ok
                                         THEN [kind |-> "ok", data |-> d,
                                               agent |-> a]
                                         ELSE [kind |-> "fail", data |-> NoData,
                                               agent |-> a]]
  /\ UNCHANGED << orchestratorAgent, agents, agentObj, registerError, workflows, activeTasksCount, refused >>

\* a direct call returns to its caller, a call made by executeWithRetry
\* resumes executeWithRetry
ProcessSettle(e, ok, d) ==
  AgentSettles(e, "processing",
               IF ex[e].mode = "process" THEN "done" ELSE "settled", ok, d)

\* catch (error) { lastError = error; ... }
CatchKeepsFirst(x) ==
  [x EXCEPT !.raises = @ + 1,
            !.lastError = IF @ = 0 THEN x.attempt ELSE @]
Catch(x) == [x EXCEPT !.raises = @ + 1, !.lastError = x.attempt]

(***************************************************************************)
(* executeWithRetry resumes after "await agent.process(task)".             *)
(***************************************************************************)
\* the backoff wait giving up the admission slot of its execution
RetryContinueReleasesSlot(e) ==
  /\ ex[e].pc = "settled"
  /\ LET x == ex[e]
         a == x.agent
         direct == x.mode = "retry"
     IN  IF x.pend.kind # "raise"
         THEN \* updateMetrics(duration, false); return result
              /\ ag' = [ag EXCEPT ![a] = updateMetrics(@, FALSE)]
              /\ ex' = [ex EXCEPT ![e] =
                          [x EXCEPT !.retval = x.pend,
                                    !.pc = IF direct THEN "done" ELSE "stepReturned",
                                    !.outcome = IF direct THEN "returned" ELSE @]]
         ELSE IF x.attempt < x.maxRetries
         THEN \* await this.sleep(Math.pow(2, attempt) * 100)
              /\ ag' = ag
              /\ ex' = [ex EXCEPT ![e] =
                          [Catch(x) EXCEPT
                                    !.pc = "sleeping",
                                    !.decs = @ + 1,
                                    !.sleeps = Append(@, Backoff(x.attempt))]]
         ELSE \* the loop ends: updateMetrics(0, true); throw lastError
              /\ ag' = [ag EXCEPT ![a] = updateMetrics(@, TRUE)]
              /\ ex' = [ex EXCEPT ![e] =
                          [Catch(x) EXCEPT
                                    !.retval = x.pend,
                                    !.pc = IF direct THEN "done" ELSE "stepThrew",
                                    !.outcome = IF direct THEN "threw" ELSE @]]
  /\ activeTasksCount' = activeTasksCount - (ex'[e].decs - ex[e].decs)
  /\ UNCHANGED << orchestratorAgent, agents, agentObj, registerError, workflows, refused >>
RetryContinue(e) ==
  /\ ex[e].pc = "settled"
  /\ LET x == ex[e]
         a == x.agent
         direct == x.mode = "retry"
     IN  IF x.pend.kind # "raise"
         THEN \* updateMetrics(duration, false); return result
              /\ ag' = [ag EXCEPT ![a] = updateMetrics(@, FALSE)]
              /\ ex' = [ex EXCEPT ![e] =
                          [x EXCEPT !.retval = x.pend,
                                    !.pc = IF direct THEN "done" ELSE "stepReturned",
                                    !.outcome = IF direct THEN "returned" ELSE @]]
         ELSE IF x.attempt < x.maxRetries
         THEN \* await this.sleep(Math.pow(2, attempt) * 100)
              /\ ag' = ag
              /\ ex' = [ex EXCEPT ![e] =
                          [Catch(x) EXCEPT
                                    !.pc = "sleeping",
                                    !.sleeps = Append(@, Backoff(x.attempt))]]
         ELSE \* the loop ends: updateMetrics(0, true); throw lastError
              /\ ag' = [ag EXCEPT ![a] = updateMetrics(@, TRUE)]
              /\ ex' = [ex EXCEPT ![e] =
                          [Catch(x) EXCEPT
                                    !.retval = x.pend,
                                    !.pc = IF direct THEN "done" ELSE "stepThrew",
                                    !.outcome = IF direct THEN "threw" ELSE @]]
  /\ UNCHANGED << orchestratorAgent, agents, agentObj, registerError, workflows, activeTasksCount, refused >>

\* the backoff timer fires: next iteration of the retry loop
SleepDone(e, r) ==
  /\ ex[e].pc = "sleeping"
  /\ Commit(e, Attempt([ex[e] EXCEPT !.attempt = @ + 1], r))
  /\ UNCHANGED << orchestratorAgent, agents, agentObj, registerError, workflows, refused >>

(***************************************************************************)
(* executeWorkflow resumes after "await this.executeWithRetry(...)".       *)
(***************************************************************************)
\* the loop body going on without awaiting executeWithRetry
StepContinueNoAwait(e, r) ==
  /\ ex[e].pc \in {"processing", "stepReturned"}
  /\ Commit(e, AfterStep(ex[e], r))
  /\ UNCHANGED << orchestratorAgent, agents, agentObj, registerError, workflows, refused >>
\* the loop body looking the workflow up again after every step
StepContinueLooksUpAgain(e, r) ==
  /\ ex[e].pc = "stepReturned"
  /\ Commit(e, AfterStep([ex[e] EXCEPT !.workflow =
                                         LookupWorkflow(ex[e].wfName)], r))
  /\ UNCHANGED << orchestratorAgent, agents, agentObj, registerError, workflows, refused >>
StepContinue(e, r) ==
  /\ ex[e].pc = "stepReturned"
  /\ Commit(e, AfterStep(ex[e], r))
  /\ UNCHANGED << orchestratorAgent, agents, agentObj, registerError, workflows, refused >>

\* ... or the await throws: catch (log, rethrow) and finally
WorkflowCatchNeverSettles(e) ==
  /\ ex[e].pc = "stepThrew"
  /\ UNCHANGED vars
WorkflowCatch(e) ==
  /\ ex[e].pc = "stepThrew"
  /\ Commit(e, [x |-> Exit(ex[e], "raised"), busy |-> NoAgent])
  /\ UNCHANGED << orchestratorAgent, agents, agentObj, registerError, workflows, refused >>

(***************************************************************************)
(* handleEscalation: the handler's process() and the return after it.      *)
(***************************************************************************)
EscSettle(e, ok, d) == AgentSettles(e, "escalating", "escSettled", ok, d)

\* the catch of handleEscalation rethrows instead of falling through
EscContinueRethrows(e) ==
  /\ ex[e].pc = "escSettled"
  /\ ex' = [ex EXCEPT ![e].pc = "done",
                      ![e].outcome = IF ex[e].pend.kind = "raise"
                                     THEN "raised" ELSE "escalated",
                      ![e].escKind = IF ex[e].pend.kind = "raise"
                                     THEN "none" ELSE "handled"]
  /\ UNCHANGED << orchestratorAgent, agents, agentObj, registerError, workflows, activeTasksCount, ag, refused >>
EscContinue(e) ==
  /\ ex[e].pc = "escSettled"
  /\ ex' = [ex EXCEPT ![e].pc = "done",
                      ![e].outcome = "escalated",
                      ![e].escKind = IF ex[e].pend.kind = "raise"
                                     THEN "default" ELSE "handled"]
  /\ UNCHANGED << orchestratorAgent, agents, agentObj, registerError, workflows, activeTasksCount, ag, refused >>

(***************************************************************************)
(* executeWithRetry(agent, task, maxRetries) called directly.              *)
(***************************************************************************)
\* agent.process(task) called directly (tests, POST /agent/execute)
process(e, a, task, r) ==
  /\ SlotFree(e)
  /\ LET out == Attempt([ex[e] EXCEPT !.mode = "process", !.agent = a,
                                      !.sent = task], r)
     IN  Commit(e, IF out.x.pc = "settled"
                   THEN [out EXCEPT !.x.pc = "done", !.x.outcome = "threw"]
                   ELSE out)
  /\ UNCHANGED << orchestratorAgent, agents, agentObj, registerError, workflows, refused >>

executeWithRetry(e, a, task, m, r) ==
  /\ SlotFree(e)
  /\ Commit(e, Attempt([ex[e] EXCEPT !.mode = "retry", !.agent = a,
                                     !.maxRetries = m, !.attempt = 1, !.lastError = 0,
                                     !.sent = task], r))
  /\ UNCHANGED << orchestratorAgent, agents, agentObj, registerError, workflows, refused >>

(***************************************************************************)
(* Specifications.                                                         *)
(***************************************************************************)
\* Spec: a freshly constructed orchestrator; agents and workflows are
\* registered at any time while one client makes its calls one after the
\* other.
PreviousDone(e) == \A f \in Execs : f < e => ex[f].pc = "done"

Next ==
  \/ \E a \in AgentNames : a \notin agents /\ registerAgent(a, 1)
  \/ \E n \in WorkflowNames, d \in WorkflowDefs : registerWorkflow(n, d)
  \/ \E e \in 1..NumSeq, n \in WorkflowNames \cup {UnknownWorkflow},
        task \in InitialTasks, r \in BOOLEAN :
          PreviousDone(e) /\ executeWorkflow(e, n, task, r)
  \/ \E e \in Execs, ok \in BOOLEAN, d \in 0..4 : ProcessSettle(e, ok, d)
  \/ \E e \in Execs : RetryContinue(e)
  \/ \E e \in Execs, r \in BOOLEAN : SleepDone(e, r)
  \/ \E e \in Execs, r \in BOOLEAN : StepContinue(e, r)
  \/ \E e \in Execs : WorkflowCatch(e)
  \/ \E e \in Execs, ok \in BOOLEAN, d \in 0..4 : EscSettle(e, ok, d)
  \/ \E e \in Execs : EscContinue(e)

Spec == Init /\ [][Next]_vars

\* SpecLoad: the service as server.js starts it (every agent and the
\* workflow registered), with clients calling executeWorkflow concurrently.
InitService ==
  /\ agents = AgentNames
  /\ agentObj = [a \in AgentNames |-> 1]
  /\ registerError = NoRegisterError
  /\ \E d \in LoadDefs :
       workflows = [n \in RegistryNames |->
                      IF n \in WorkflowNames THEN d ELSE NoWorkflow]
  /\ activeTasksCount = 0
  /\ ag = [a \in AgentNames |-> NewAgent]
  /\ ex = [e \in Execs |-> IdleExec]
  /\ refused = NoRefusal
  /\ orchestratorAgent = NewOrchestratorAgent

NextLoad ==
  \/ \E e \in Execs, n \in WorkflowNames \cup {UnknownWorkflow},
        task \in LoadTasks, r \in BOOLEAN : executeWorkflow(e, n, task, r)
  \/ \E e \in Execs, ok \in BOOLEAN, d \in 0..4 : ProcessSettle(e, ok, d)
  \/ \E e \in Execs : RetryContinue(e)
  \/ \E e \in Execs, r \in BOOLEAN : SleepDone(e, r)
  \/ \E e \in Execs, r \in BOOLEAN : StepContinue(e, r)
  \/ \E e \in Execs : WorkflowCatch(e)
  \/ \E e \in Execs, ok \in BOOLEAN, d \in 0..4 : EscSettle(e, ok, d)
  \/ \E e \in Execs : EscContinue(e)

SpecLoad == InitService /\ [][NextLoad]_vars

\* SpecRetry: one caller using executeWithRetry on its own
NextRetry ==
  \/ \E a \in AgentNames, task \in InitialTasks, m \in 1..MaxRetriesArg,
        r \in BOOLEAN : executeWithRetry(1, a, task, m, r)
  \/ \E ok \in BOOLEAN, d \in 0..4 : ProcessSettle(1, ok, d)
  \/ RetryContinue(1)
  \/ \E r \in BOOLEAN : SleepDone(1, r)

SpecRetry == Init /\ [][NextRetry]_vars

\* SpecLate: an orchestrator on which only agent A is registered when the
\* one call of the run is made; the other agents are registered while that
\* call is running
InitLate ==
  /\ agents = {"A"}
  /\ agentObj = [a \in AgentNames |-> IF a = "A" THEN 1 ELSE NoObject]
  /\ registerError = NoRegisterError
  /\ workflows = [n \in RegistryNames |-> NoWorkflow]
  /\ activeTasksCount = 0
  /\ ag = [a \in AgentNames |-> NewAgent]
  /\ ex = [e \in Execs |-> IdleExec]
  /\ refused = NoRefusal
  /\ orchestratorAgent = NewOrchestratorAgent

NextLate ==
  \/ \E a \in AgentNames :
        /\ a \notin agents
        /\ ex[1].pc \notin {"idle", "done"}
        /\ registerAgent(a, 1)
  \/ \E n \in WorkflowNames, d \in WorkflowDefs : registerWorkflow(n, d)
  \/ \E n \in WorkflowNames, task \in InitialTasks, r \in BOOLEAN :
        executeWorkflow(1, n, task, r)
  \/ \E ok \in BOOLEAN, d \in 0..4 : ProcessSettle(1, ok, d)
  \/ RetryContinue(1)
  \/ \E r \in BOOLEAN : SleepDone(1, r)
  \/ \E r \in BOOLEAN : StepContinue(1, r)
  \/ WorkflowCatch(1)
  \/ \E ok \in BOOLEAN, d \in 0..4 : EscSettle(1, ok, d)
  \/ EscContinue(1)

SpecLate == InitLate /\ [][NextLate]_vars

\* SpecLateFair: SpecLate on an event loop that runs every continuation that
\* is ready, fires every timer, and whose agents settle every process call
SpecLateFair ==
  /\ SpecLate
  /\ WF_vars(\E ok \in BOOLEAN, d \in 0..4 : ProcessSettle(1, ok, d))
  /\ WF_vars(RetryContinue(1))
  /\ WF_vars(\E r \in BOOLEAN : SleepDone(1, r))
  /\ WF_vars(\E r \in BOOLEAN : StepContinue(1, r))
  /\ WF_vars(WorkflowCatch(1))
  /\ WF_vars(\E ok \in BOOLEAN, d \in 0..4 : EscSettle(1, ok, d))
  /\ WF_vars(EscContinue(1))

\* SpecWait: the started service; the first call retries its step, and the
\* other calls are made while the first one is in its backoff wait
NextWait ==
  \/ \E n \in WorkflowNames, task \in LoadTasks, r \in BOOLEAN :
        executeWorkflow(1, n, task, r)
  \/ \E e \in Execs \ {1}, n \in WorkflowNames, task \in LoadTasks,
        r \in BOOLEAN :
          ex[1].pc = "sleeping" /\ executeWorkflow(e, n, task, r)
  \/ \E e \in Execs, ok \in BOOLEAN, d \in 0..4 : ProcessSettle(e, ok, d)
  \/ \E e \in Execs : RetryContinue(e)
  \/ \E e \in Execs, r \in BOOLEAN : SleepDone(e, r)
  \/ \E e \in Execs, r \in BOOLEAN : StepContinue(e, r)
  \/ \E e \in Execs : WorkflowCatch(e)
  \/ \E e \in Execs, ok \in BOOLEAN, d \in 0..4 : EscSettle(e, ok, d)
  \/ \E e \in Execs : EscContinue(e)

SpecWait == InitService /\ [][NextWait]_vars

\* SpecSoft: the started service with a workflow none of whose steps
\* escalates; one client makes its calls one after the other
InitSoft ==
  /\ agents = AgentNames
  /\ agentObj = [a \in AgentNames |-> 1]
  /\ registerError = NoRegisterError
  /\ \E d \in SoftDefs :
       workflows = [n \in RegistryNames |->
                      IF n \in WorkflowNames THEN d ELSE NoWorkflow]
  /\ activeTasksCount = 0
  /\ ag = [a \in AgentNames |-> NewAgent]
  /\ ex = [e \in Execs |-> IdleExec]
  /\ refused = NoRefusal
  /\ orchestratorAgent = NewOrchestratorAgent

NextSoft ==
  \/ \E e \in Execs, task \in InitialTasks, r \in BOOLEAN :
        PreviousDone(e) /\ executeWorkflow(e, "wf", task, r)
  \/ \E e \in Execs, ok \in BOOLEAN, d \in 0..4 : ProcessSettle(e, ok, d)
  \/ \E e \in Execs : RetryContinue(e)
  \/ \E e \in Execs, r \in BOOLEAN : SleepDone(e, r)
  \/ \E e \in Execs, r \in BOOLEAN : StepContinue(e, r)
  \/ \E e \in Execs : WorkflowCatch(e)

SpecSoft == InitSoft /\ [][NextSoft]_vars

\* SpecAgent: callers using the agent objects directly, concurrently
NextAgent ==
  \/ \E e \in Execs, a \in AgentNames, task \in DirectTasks, r \in BOOLEAN :
        process(e, a, task, r)
  \/ \E e \in Execs, ok \in BOOLEAN, d \in 0..4 : ProcessSettle(e, ok, d)

SpecAgent == Init /\ [][NextAgent]_vars

\* a caller resets an agent
agentReset(a) ==
  /\ ag' = [ag EXCEPT ![a] = reset(@)]
  /\ UNCHANGED << orchestratorAgent, agents, agentObj, registerError, workflows,
                  activeTasksCount, ex, refused >>

\* SpecReset: one caller using executeWithRetry, then one calling an agent
\* directly while the first call may still be running, and agents being
\* reset at any time
NextReset ==
  \/ \E a \in AgentNames, task \in InitialTasks, m \in 1..MaxRetriesArg,
        r \in BOOLEAN : executeWithRetry(1, a, task, m, r)
  \/ \E a \in AgentNames, task \in DirectTasks, r \in BOOLEAN :
        process(2, a, task, r)
  \/ \E e \in Execs, ok \in BOOLEAN, d \in 0..4 : ProcessSettle(e, ok, d)
  \/ RetryContinue(1)
  \/ \E r \in BOOLEAN : SleepDone(1, r)
  \/ \E a \in AgentNames : agentReset(a)

SpecReset == Init /\ [][NextReset]_vars

\* SpecOrchestratorAgent: the orchestrator-agent service answering requests
NextOrchestratorAgent ==
  \/ \E body \in OrchestrateBodies : postOrchestrate(body)
  \/ postPause
  \/ postResume

SpecOrchestratorAgent == Init /\ [][NextOrchestratorAgent]_vars

\* SpecRegistry: the registry operations alone, with more than one agent
\* object constructed under the same name
NextRegistry ==
  \/ \E a \in AgentNames, o \in AgentObjects : registerAgent(a, o)
  \/ \E n \in RegistryNames, d \in WorkflowDefs : registerWorkflow(n, d)

SpecRegistry == Init /\ [][NextRegistry]_vars

(***************************************************************************)
(* What the caller of executeWorkflow receives.                            *)
(***************************************************************************)
\* the object returned (AgentOrchestrator.js:92-98, 161-166, 174-180)
ReturnValue(x) ==
  [ success   |-> x.outcome = "completed",
    escalated |-> x.outcome = "escalated",
    results   |-> x.results ]

\* the call ended by throwing
Raised(x) == x.outcome \in {"raised", "agentNotFound"}

\* the object handleEscalation returned to the caller of x
EscalationReturn(x) ==
  IF x.escKind = "handled"
  THEN [success |-> FALSE, escalated |-> TRUE, escalationResult |-> x.pend,
        failedStep |-> "", error |-> NoPend, previousResults |-> x.results]
  ELSE [success |-> FALSE, escalated |-> TRUE, escalationResult |-> NoPend,
        failedStep |-> x.workflow.steps[x.step].name, error |-> x.retval,
        previousResults |-> x.results]

\* the errors thrown by the orchestrator and the agents are plain Error
\* objects: they have a message and no status property
NoStatus == 0
ThrownError(msg) == [message |-> msg, status |-> NoStatus]

\* the error middleware of server.js: res.status(err.status || 500)
errorMiddleware(err) == IF err.status # NoStatus THEN err.status ELSE 500

\* status of the response of POST /workflow/execute for a request with a
\* workflowName and a task object, whose executeWorkflow call ended as x
postWorkflowExecute(x) ==
  IF Raised(x) THEN errorMiddleware(ThrownError(x.outcome)) ELSE 200

\* ... and for a request whose executeWorkflow call was rejected as rf
postWorkflowExecuteRejected(rf) == errorMiddleware(ThrownError(rf.error))

Workflows == {e \in Execs : ex[e].mode = "workflow"}
\* admitted, result (or error) not yet delivered to the caller
InFlight == {e \in Workflows : ex[e].pc # "done"}

(***************************************************************************)
(* Properties.                                                             *)
(***************************************************************************)

\* C1: in every reachable state 0 <= activeTasksCount <= maxConcurrentTasks:
\* no interleaving of executeWorkflow calls admits past the cap, and the
\* counter never goes below zero.
C1_CounterWithinCap ==
  /\ activeTasksCount >= 0
  /\ activeTasksCount <= maxConcurrentTasks

\* the cap is reached and one more call was refused for it
C1_Witness ==
  /\ activeTasksCount = maxConcurrentTasks
  /\ refused.error = "capacity"

\* C2: the number of admitted executeWorkflow calls that have not yet
\* delivered their result or error equals activeTasksCount and is at most
\* maxConcurrentTasks, calls waiting on the escalation handler included.
C2_InFlightIsCounted ==
  /\ Cardinality(InFlight) = activeTasksCount
  /\ Cardinality(InFlight) <= maxConcurrentTasks

\* C3: every admitted call decrements activeTasksCount exactly once on
\* every exit path (completed, escalated, agent not found, error out of the
\* retry loop), so with nothing in flight the counter is 0.
C3_DecrementExactlyOnce ==
  /\ \A e \in Execs :
       /\ ex[e].decs <= 1
       /\ (ex[e].decs = 1 => ex[e].admitted)
       /\ (ex[e].admitted /\ ex[e].pc = "done" => ex[e].decs = 1)
  /\ (InFlight = {} => activeTasksCount = 0)

\* an admitted call left through the catch block and the counter is back at 0
C3_Witness ==
  \E e \in Execs :
    /\ ex[e].admitted /\ ex[e].pc = "done" /\ ex[e].outcome = "raised"
    /\ InFlight = {} /\ activeTasksCount = 0

\* C4: while maxConcurrentTasks executions are pending, one more call for a
\* registered workflow is refused with the capacity error; once fewer are
\* pending, a call is not refused for capacity.
C4_AdmissionControl ==
  [][ /\ (Cardinality(InFlight) >= maxConcurrentTasks
            => \A e \in Execs : ex[e].pc = "idle" => ex'[e].pc = "idle")
      /\ (Cardinality(InFlight) < maxConcurrentTasks /\ refused' # refused
            => refused'.error # "capacity") ]_vars

\* C5: when every attempt of a step raises, executeWorkflow does not raise:
\* it records an unsuccessful result for the step and goes on to evaluate
\* escalateOnFailure.
C5_ExhaustionIsCaught ==
  \A e \in Workflows :
    ex[e].raises > 0 /\ ex[e].raises = ex[e].maxRetries
      /\ ex[e].pc \in {"done", "escalating", "escSettled"}
    => /\ ex[e].outcome # "raised"
       /\ Len(ex[e].results) >= ex[e].step
       /\ ~ex[e].results[ex[e].step].success

\* C6: an attempt that ends with an unsuccessful AgentResult is retried
\* while attempts remain; executeWithRetry hands an unsuccessful result to
\* the step loop only when the retry budget is used up.
C6_FailedResultIsRetried ==
  \A e \in Workflows :
    ex[e].pc = "stepReturned" /\ ex[e].retval.kind = "fail"
    => ex[e].attempt = ex[e].maxRetries

\* C7: when the step at index k (0-based) has escalateOnFailure and its
\* agent returns an unsuccessful result, the call returns success:false,
\* escalated:true, the results handed to escalation have k+1 entries and no
\* agent of a later step is invoked.
EscalatingEntries(x) ==
  {j \in 1..Len(x.results) :
     ~x.results[j].success /\ x.workflow.steps[j].escalateOnFailure}

C7_EscalationStopsTheWorkflow ==
  \A e \in Workflows :
    EscalatingEntries(ex[e]) # {}
    => /\ EscalatingEntries(ex[e]) = {ex[e].step}
       /\ Len(ex[e].results) = ex[e].step
       /\ \A i \in 1..Len(ex[e].invoked) : ex[e].invoked[i] <= ex[e].step
       /\ ex[e].pc \in {"escalating", "escSettled", "done"}
       /\ (ex[e].pc = "done"
             => /\ ~ReturnValue(ex[e]).success
                /\ ReturnValue(ex[e]).escalated
                /\ ~Raised(ex[e]))

\* the second step escalated after a first step that did not, and the call
\* has returned although a third step exists
C7_Witness ==
  \E e \in Workflows :
    /\ ex[e].pc = "done" /\ ex[e].outcome = "escalated"
    /\ ex[e].step = 2 /\ Len(ex[e].workflow.steps) = 3
    /\ Len(ex[e].results) = 2

\* C8: a failed step without escalateOnFailure does not abort the workflow,
\* whether its failure is a returned unsuccessful result or an error raised
\* by every attempt: the loop moves on to the next step, and a finished
\* workflow has exactly one result per step of the definition, in
\* definition order.
C8_SoftFailureContinues ==
  \A e \in Workflows :
    /\ \A j \in 1..Len(ex[e].results) :
         ~ex[e].results[j].success
           /\ ~ex[e].workflow.steps[j].escalateOnFailure
         => ex[e].step > j
    /\ (ex[e].outcome = "raised"
          => ex[e].workflow.steps[ex[e].step].escalateOnFailure)
    /\ (ex[e].outcome = "completed"
          => /\ Len(ex[e].results) = Len(ex[e].workflow.steps)
             /\ \A j \in 1..Len(ex[e].results) :
                  ex[e].results[j].step = ex[e].workflow.steps[j].name)

\* C9: a workflow of N steps whose agents are all registered and all
\* succeed returns success:true with N results, entry i naming step i and
\* its agent.
C9_AllStepsSucceed ==
  \A e \in Workflows :
    /\ ex[e].pc = "done"
    /\ ~Raised(ex[e])
    /\ \A j \in 1..Len(ex[e].results) : ex[e].results[j].success
    => /\ ReturnValue(ex[e]).success
       /\ Len(ReturnValue(ex[e]).results) = Len(ex[e].workflow.steps)
       /\ \A j \in 1..Len(ex[e].workflow.steps) :
            /\ ex[e].results[j].step = ex[e].workflow.steps[j].name
            /\ ex[e].results[j].agent = ex[e].workflow.steps[j].agentName

\* a three-step workflow returned with every step successful
C9_Witness ==
  \E e \in Workflows :
    /\ ex[e].pc = "done" /\ ex[e].outcome = "completed"
    /\ Len(ex[e].results) = 3
    /\ \A j \in 1..3 : ex[e].results[j].success

\* C10: executeWithRetry whose agent raises on the first k attempts and then
\* returns makes exactly k+1 attempts and k backoff waits of 200, 400, ...
\* ms, returns the result of attempt k+1, and does nothing after it.
ExpectedWaits(k) == [i \in 1..k |-> Pow2(i - 1) * 200]

C10_RetryThenSuccess ==
  \A e \in Execs :
    ex[e].mode = "retry" /\ ex[e].pc = "done" /\ ex[e].outcome = "returned"
    => /\ ex[e].raises < ex[e].maxRetries
       /\ Len(ex[e].invoked) = ex[e].raises + 1
       /\ ex[e].attempt = ex[e].raises + 1
       /\ ex[e].sleeps = ExpectedWaits(ex[e].raises)
       /\ ex[e].retval = ex[e].pend

\* retries=3, two raising attempts, then a successful one
C10_Witness ==
  \E e \in Execs :
    /\ ex[e].mode = "retry" /\ ex[e].pc = "done" /\ ex[e].outcome = "returned"
    /\ ex[e].maxRetries = 3 /\ ex[e].raises = 2 /\ ex[e].retval.kind = "ok"
    /\ ex[e].sleeps = << 200, 400 >>

\* number of agent.process calls execution x made for its step j
AttemptsOf(x, j) == Cardinality({i \in 1..Len(x.invoked) : x.invoked[i] = j})

\* the steps of x whose agent was resolved
ReachedSteps(x) ==
  {j \in 1..Len(x.workflow.steps) :
     j < x.step \/ (j = x.step /\ x.outcome # "agentNotFound")}

\* C11 as claimed: the attempts executeWorkflow makes for a step are at
\* most the step's budget, which is the step's retries value, or 3 when the
\* step does not specify retries; every step reached is attempted at least
\* once.
C11_BudgetDefaultsToThree ==
  \A e \in Workflows : \A j \in ReachedSteps(ex[e]) :
    LET st == ex[e].workflow.steps[j]
        budget == IF st.retries = 0 THEN 3 ELSE st.retries
    IN  /\ AttemptsOf(ex[e], j) >= 1
        /\ AttemptsOf(ex[e], j) <= budget
        /\ (j = ex[e].step => ex[e].maxRetries = budget)

\* C11 amended: the budget is the step's retries value, or 1 when the step
\* does not specify retries; the attempts for a step are between 1 and the
\* budget, and a step whose every attempt raises uses the budget up.
C11_BudgetDefaultsToOne ==
  \A e \in Workflows : \A j \in ReachedSteps(ex[e]) :
    LET st == ex[e].workflow.steps[j]
        budget == IF st.retries = 0 THEN 1 ELSE st.retries
    IN  /\ budget >= 1
        /\ AttemptsOf(ex[e], j) >= 1
        /\ AttemptsOf(ex[e], j) <= budget
        /\ (j = ex[e].step => ex[e].maxRetries = budget)
        /\ (j = ex[e].step /\ ex[e].outcome = "raised"
              => AttemptsOf(ex[e], j) = budget)

\* a step without retries raised on its only attempt and the call ended
C11_Witness ==
  \E e \in Workflows :
    /\ ex[e].outcome = "raised"
    /\ ex[e].step = 2
    /\ ex[e].workflow.steps[2].retries = 0
    /\ AttemptsOf(ex[e], 2) = 1

\* the data of the last of the recorded results that carried data, or d
RECURSIVE LatestData(_, _)
LatestData(results, d) ==
  IF results = << >> THEN d
  ELSE IF results[Len(results)].data # NoData THEN results[Len(results)].data
  ELSE LatestData(SubSeq(results, 1, Len(results) - 1), d)

\* the program points of a call inside executeWithRetry for its current step
StepPcs == {"processing", "settled", "sleeping", "stepReturned", "stepThrew"}

\* C12: the task handed to a step's agent carries the data of the most
\* recent earlier step result that had data, and the initial task's data
\* when no earlier result had any; type and step name are the initial
\* type and the step's own name.
C12_DataThreading ==
  \A e \in Workflows :
    ex[e].pc \in StepPcs =>
      /\ Len(ex[e].results) = ex[e].step - 1
      /\ ex[e].sent.data = LatestData(ex[e].results, ex[e].initial.data)
      /\ ex[e].sent.type = ex[e].initial.type
      /\ ex[e].sent.stepName = ex[e].workflow.steps[ex[e].step].name

\* the third step receives the first step's data: the second step's result
\* carried none and the initial payload was another one
C12_Witness ==
  \E e \in Workflows :
    /\ ex[e].pc = "processing"
    /\ ex[e].step = 3
    /\ ex[e].results[2].data = NoData
    /\ ex[e].results[1].data # ex[e].initial.data
    /\ ex[e].sent.data = ex[e].results[1].data

\* C13: handleEscalation never raises: whether the workflow names no
\* handler, the named handler is not registered, the handler returns or the
\* handler raises, the call ends with an object carrying success:false and
\* escalated:true; without an invoked handler, or when the handler raises, it
\* is the default object (failedStep, error, previousResults), otherwise it
\* carries the handler's result.
C13_EscalationNeverRaises ==
  \A e \in Workflows :
    (EscalatingEntries(ex[e]) # {} /\ ex[e].pc = "done")
    => LET x   == ex[e]
           ret == EscalationReturn(x)
       IN  /\ x.outcome = "escalated"
           /\ ~Raised(x)
           /\ ~ret.success /\ ret.escalated
           /\ ret.previousResults = x.results
           /\ IF x.handlerCalls = 1 /\ x.pend.kind # "raise"
              THEN /\ x.escKind = "handled"
                   /\ ret.escalationResult = x.pend
              ELSE /\ x.escKind = "default"
                   /\ ret.failedStep = x.workflow.steps[x.step].name
                   /\ ret.error.kind = "fail"
           /\ (x.workflow.escalationHandler = NoAgent => x.handlerCalls = 0)

\* the handler raised and the call ended with the default object
C13_Witness ==
  \E e \in Workflows :
    /\ ex[e].pc = "done"
    /\ ex[e].handlerCalls = 1
    /\ ex[e].pend.kind = "raise"
    /\ ex[e].escKind = "default"
    /\ ex[e].outcome = "escalated"

\* C14: the escalation handler is invoked at most once per execution, only
\* after a step with escalateOnFailure returned an unsuccessful result, and
\* only when the workflow names a handler that is registered; its task has
\* type escalation and data holding the workflow's name, the failed step's
\* name, the failed step's result and the results recorded so far.
C14_HandlerInvocation ==
  \A e \in Workflows :
    LET x == ex[e]
    IN  /\ x.handlerCalls <= 1
        /\ x.handlerCalls = 1 =>
             /\ EscalatingEntries(x) = {x.step}
             /\ x.workflow.escalationHandler # NoAgent
             /\ x.workflow.escalationHandler \in agents
             /\ x.agent = x.workflow.escalationHandler
             /\ x.sent.type = "escalation"
             /\ x.escData.workflow = x.workflow.name
             /\ x.escData.failedStep = x.workflow.steps[x.step].name
             /\ x.escData.error.kind = "fail"
             /\ x.escData.error = x.retval
             /\ x.escData.previousResults = x.results
        /\ (x.pc \in {"escalating", "escSettled"} => x.handlerCalls = 1)

\* the handler is running for a second step that failed
C14_Witness ==
  \E e \in Workflows :
    /\ ex[e].pc = "escalating"
    /\ ex[e].step = 2
    /\ ex[e].handlerCalls = 1
    /\ Len(ex[e].escData.previousResults) = 2
    /\ ag[ex[e].workflow.escalationHandler].state = BusyMarker

\* the step a call arrives at in this transition (0: none): the first one
\* at admission, the next one after a step that did not escalate
StepReached(x, y) ==
  IF x.pc = "idle" /\ y.mode = "workflow" /\ y.admitted THEN 1
  ELSE IF /\ x.pc = "stepReturned" /\ x.mode = "workflow" /\ y # x
          /\ ~(x.retval.kind # "ok"
                 /\ x.workflow.steps[x.step].escalateOnFailure)
       THEN x.step + 1
       ELSE 0

\* C15: when the agent of the step a call arrives at is not registered, the
\* call ends there by raising the not-found error: the step is not
\* recorded, no agent and no escalation handler is invoked (whatever the
\* step's escalateOnFailure), activeTasksCount is decremented, and nothing
\* of the call runs afterwards.
C15_MissingAgentAborts ==
  [][\A e \in Execs :
       LET x == ex[e]
           y == ex'[e]
           j == StepReached(x, y)
       IN  /\ (/\ j \in 1..Len(y.workflow.steps)
               /\ y.workflow.steps[j].agentName \notin agents)
              => /\ y.pc = "done" /\ y.outcome = "agentNotFound" /\ Raised(y)
                 /\ y.step = j
                 /\ Len(y.results) = j - 1
                 /\ y.results = x.results
                      \/ (x.pc = "stepReturned"
                            /\ SubSeq(y.results, 1, j - 2) = x.results)
                 /\ y.invoked = x.invoked
                 /\ y.handlerCalls = 0
                 /\ y.decs = 1
                 /\ activeTasksCount' =
                      IF x.pc = "idle" THEN activeTasksCount
                      ELSE activeTasksCount - 1
                 /\ ag' = ag
           /\ (x.outcome = "agentNotFound" => y = x)
    ]_vars

\* the second step's agent is missing although the step escalates on
\* failure and the handler is registered
C15_Witness ==
  \E e \in Workflows :
    /\ ex[e].outcome = "agentNotFound"
    /\ ex[e].step = 2
    /\ ex[e].workflow.steps[2].escalateOnFailure
    /\ ex[e].workflow.escalationHandler \in agents
    /\ Len(ex[e].results) = 1
    /\ ex[e].handlerCalls = 0
    /\ activeTasksCount = 0

\* C16: a call of executeWorkflow that is rejected at admission (unknown
\* workflow name, or activeTasksCount at the cap) does no work: the
\* counter, both registries, every agent's state, metrics and history and
\* every call in flight are as before, so no agent's process was invoked.
C16_RejectedCallDoesNothing ==
  [][refused' # refused
       => /\ refused'.error \in {"workflowNotFound", "capacity"}
          /\ activeTasksCount' = activeTasksCount
          /\ agents' = agents
          /\ workflows' = workflows
          /\ ag' = ag
          /\ ex' = ex
    ]_vars

\* a call for an unknown workflow was rejected while an admitted call is
\* inside its agent
C16_Witness ==
  /\ refused.error = "workflowNotFound"
  /\ activeTasksCount = 1
  /\ \E e \in Workflows :
       ex[e].pc = "processing" /\ ag[ex[e].agent].state = BusyMarker

\* C17: the workflow is resolved before the capacity check: a call with an
\* unknown name fails with the not-found error whatever activeTasksCount
\* is, and the capacity error is only reported for a registered name.
C17_LookupBeforeCapacity ==
  /\ refused.wfName = UnknownWorkflow => refused.error = "workflowNotFound"
  /\ refused.error = "capacity"
       => /\ refused.wfName \in WorkflowNames
          /\ workflows[refused.wfName] # NoWorkflow
  /\ refused.error = "workflowNotFound"
       => LookupWorkflow(refused.wfName) = NoWorkflow

\* the not-found error for an unknown name with the counter at the cap
C17_Witness ==
  /\ refused = [wfName |-> UnknownWorkflow, error |-> "workflowNotFound"]
  /\ activeTasksCount = maxConcurrentTasks
  /\ \A e \in Execs : ex[e].pc # "idle" \/ e > maxConcurrentTasks

\* C18: registerAgent with a name that is already registered throws the
\* duplicate-name error and leaves the registry as it was (same size, the
\* name still mapped to the first agent object); with a new name it inserts
\* the agent and the size grows by exactly 1.
C18_RegisterAgent ==
  [][/\ \A n \in agents : n \in agents' /\ agentObj'[n] = agentObj[n]
     /\ (registerError' # registerError /\ registerError'.error = "duplicate")
          => /\ registerError'.name \in agents
             /\ agents' = agents
             /\ agentObj' = agentObj
     /\ agents' # agents
          => /\ \E n \in AgentNames \ agents :
                  /\ agents' = agents \cup {n}
                  /\ agentObj'[n] \in AgentObjects
             /\ Cardinality(agents') = Cardinality(agents) + 1
             /\ registerError' = NoRegisterError
     /\ agents' = {n \in AgentNames : agentObj'[n] # NoObject}
    ]_vars

\* a second object was offered under a registered name and refused: the
\* name is still mapped to the first object
C18_Witness ==
  /\ registerError.error = "duplicate"
  /\ registerError.name \in agents
  /\ agentObj[registerError.name] # registerError.obj
  /\ Cardinality(agents) = 2

\* C19: every agent.process call that passed validation and settled added
\* exactly 1 to the agent's tasksProcessed, and exactly 1 to its errors when
\* and only when the call failed, whether the call was made directly or by
\* executeWorkflow and whatever the interleaving.
C19_MetricsCountCalls ==
  \A a \in AgentNames :
    /\ ag[a].tasksProcessed = ag[a].calls
    /\ ag[a].errors = ag[a].failed

\* C20: a process() call whose handler raises does not raise itself: it
\* settles exactly once, with an unsuccessful result carrying the agent's
\* name and no data; the agent's errors counter grows by one and the
\* agent's state is the error marker when the call returns.
C20_HandlerErrorIsReturned ==
  [][\A e \in Execs :
       /\ (ex[e].pc = "processing" /\ ex'[e].pc # "processing")
            => LET a   == ex[e].agent
                   res == ex'[e].pend
               IN  /\ res.kind \in {"ok", "fail"}
                   /\ res.agent = a
                   /\ ex'[e].outcome # "threw"
                   /\ res.kind = "fail"
                        => /\ res.data = NoData
                           /\ ag'[a].errors = ag[a].errors + 1
                           /\ ag'[a].state = "error"
                           /\ ag'[a].history = ag[a].history
                   /\ res.kind = "ok" => ag'[a].errors = ag[a].errors
       /\ (ex[e].mode = "process" /\ ex[e].pc = "done") => ex'[e] = ex[e]
    ]_vars

\* a direct call returned the unsuccessful result and left the agent in
\* the error state
C20_Witness ==
  \E e \in Execs :
    /\ ex[e].mode = "process" /\ ex[e].pc = "done"
    /\ ex[e].outcome = "returned"
    /\ ex[e].pend.kind = "fail"
    /\ ex[e].pend.agent = ex[e].agent
    /\ ag[ex[e].agent].state = "error"
    /\ ag[ex[e].agent].errors = 1

\* C21: every agent.process call that passed validation appends exactly one
\* entry to the agent's bounded history when it settles, whether its
\* outcome is a success or a failure.
C21_EveryCallIsRecorded ==
  [][\A e \in Execs :
       (ex[e].pc \in {"processing", "escalating"} /\ ex'[e].pc # ex[e].pc)
         => LET a == ex[e].agent
            IN  Len(ag'[a].log) = Len(ag[a].log) + 1
    ]_vars

\* a task that validateTask refuses: not an object, no type, or no data
InvalidTask(task) ==
  \/ ~IsObject(task)
  \/ task.type = ""
  \/ task.data = NoData

\* C22: agent.process called directly with an invalid task raises the
\* validation error at once, before any handler runs, and leaves every
\* agent's state, metrics and history as they were.
C22_InvalidTaskChangesNothing ==
  [][\A e \in Execs :
       (ex[e].pc = "idle" /\ ex'[e].mode = "process"
          /\ InvalidTask(ex'[e].sent))
         => /\ ex'[e].pc = "done"
            /\ ex'[e].outcome = "threw"
            /\ ex'[e].pend = Rejection
            /\ ag' = ag
    ]_vars

\* a call with something that is not an object was refused by an agent
\* that has not changed since its construction
C22_Witness ==
  \E e \in Execs :
    /\ ex[e].mode = "process" /\ ex[e].pc = "done"
    /\ ex[e].outcome = "threw"
    /\ ex[e].sent = NotAnObject
    /\ ex[e].agent \notin RaisingAgents
    /\ ag[ex[e].agent] = NewAgent

\* the last n elements of a sequence
LastN(seq, n) == SubSeq(seq, Len(seq) - n + 1, Len(seq))

\* C23: an agent's history never holds more than the cap (100 in the
\* source, HistoryCap here); recording into a full history evicts the
\* oldest entry, so the history is always the most recent recorded
\* entries, in recording order.
C23_HistoryIsBounded ==
  \A a \in AgentNames :
    /\ Len(ag[a].history) <= HistoryCap
    /\ Len(ag[a].history) =
         (IF Len(ag[a].log) < HistoryCap THEN Len(ag[a].log) ELSE HistoryCap)
    /\ ag[a].history = LastN(ag[a].log, Len(ag[a].history))

\* an entry has been evicted from a full history, and the entries kept are
\* not all alike
C23_Witness ==
  \E a \in AgentNames :
    /\ Len(ag[a].log) > HistoryCap
    /\ Len(ag[a].history) = HistoryCap
    /\ ag[a].history[1] # ag[a].history[HistoryCap]
    /\ ag[a].log[1] # ag[a].history[1]

\* a process() call on agent a is made or settles in this transition
ProcessActivity(a) ==
  \E e \in Execs :
    /\ ex'[e].agent = a
    /\ \/ Len(ex'[e].invoked) > Len(ex[e].invoked)
       \/ ex'[e].handlerCalls > ex[e].handlerCalls
       \/ ex[e].pc \in {"processing", "escalating"} /\ ex'[e].pc # ex[e].pc

\* C24: getStatus is a pure read, and two getStatus calls on an agent with
\* no process call on that agent between them return the same state,
\* metrics and historySize: what getStatus returns only changes in a
\* transition in which a process call on the agent is made or settles.
C24_StatusStableWithoutProcess ==
  [][\A a \in AgentNames :
       ~ProcessActivity(a) => getStatus(ag'[a]) = getStatus(ag[a])
    ]_vars

\* C25: executeWorkflow returns success:true exactly when the step loop ran
\* to its end without an escalation, however many of the recorded results
\* are unsuccessful.
C25_SuccessIffLoopCompletes ==
  \A e \in Workflows :
    ex[e].pc = "done" =>
      (ReturnValue(ex[e]).success
         <=> /\ Len(ex[e].results) = Len(ex[e].workflow.steps)
             /\ EscalatingEntries(ex[e]) = {})

\* every step returned an unsuccessful result, no step escalates, and the
\* call returned success:true
C25_Witness ==
  \E e \in Workflows :
    /\ ex[e].pc = "done"
    /\ ReturnValue(ex[e]).success
    /\ Len(ex[e].results) = 2
    /\ \A i \in 1..2 : ~ex[e].results[i].success
    /\ \A i \in 1..2 : ~ex[e].workflow.steps[i].escalateOnFailure

\* C26: within one execution the steps are strictly sequential: an
\* agent.process call of the execution is only made when no other call of
\* it is in flight; a retry of the same step is made when its backoff wait
\* has ended, and the first attempt of the next step when executeWithRetry
\* has returned for the step before, so the steps are attempted in order.
C26_StepsAreSequential ==
  [][\A e \in Execs :
       LET x == ex[e]
           y == ex'[e]
           n == Len(x.invoked)
       IN  (y.mode = "workflow" /\ Len(y.invoked) > n)
             => /\ Len(y.invoked) = n + 1
                /\ SubSeq(y.invoked, 1, n) = x.invoked
                /\ x.pc \in {"idle", "sleeping", "stepReturned"}
                /\ y.invoked[n + 1] = y.step
                /\ IF n = 0 THEN x.pc = "idle" /\ y.invoked[1] = 1
                   ELSE IF y.invoked[n + 1] = x.invoked[n]
                   THEN x.pc = "sleeping"
                   ELSE /\ y.invoked[n + 1] = x.invoked[n] + 1
                        /\ x.pc = "stepReturned"
    ]_vars

\* the second step's call is in flight after the first step needed a
\* second attempt and a backoff wait
C26_Witness ==
  \E e \in Workflows :
    /\ ex[e].pc = "processing"
    /\ ex[e].step = 2
    /\ ex[e].invoked = << 1, 1, 2 >>
    /\ Len(ex[e].sleeps) = 1

WorkflowCount(ws) == Cardinality({n \in RegistryNames : ws[n] # NoWorkflow})

\* C28: registerWorkflow is an unconditional upsert: from every registry
\* and for every name and definition, the name maps to the definition
\* afterwards and every other name is untouched; the number of workflows
\* grows by one for a new name and stays for an existing one, whose
\* definition is replaced; registering the same pair again changes nothing.
C28_RegisterWorkflowUpserts ==
  \A n \in RegistryNames, d \in WorkflowDefs :
    LET w == setWorkflow(workflows, n, d)
    IN  /\ w[n] = d
        /\ \A m \in RegistryNames \ {n} : w[m] = workflows[m]
        /\ WorkflowCount(w) =
             WorkflowCount(workflows)
               + (IF workflows[n] = NoWorkflow THEN 1 ELSE 0)
        /\ setWorkflow(w, n, d) = w

\* two names are registered with different definitions, so that every
\* further registration replaces a definition
C28_Witness ==
  /\ WorkflowCount(workflows) = 2
  /\ workflows["wf"] # workflows["wf2"]
  /\ \E d \in WorkflowDefs :
       d # workflows["wf"] /\ setWorkflow(workflows, "wf", d)["wf"] = d

\* C29: at the HTTP layer not-found and validation errors are answered
\* with a 4xx status, not 500: POST /workflow/execute with an unknown
\* workflowName, and with a task object that lacks type or data.
C29_ClientErrorsAre4xx ==
  /\ refused.error = "workflowNotFound"
       => postWorkflowExecuteRejected(refused) \in 400..499
  /\ \A e \in Workflows :
       (ex[e].pc = "done" /\ Raised(ex[e]) /\ InvalidTask(ex[e].initial))
         => postWorkflowExecute(ex[e]) \in 400..499

\* C30: the task type never changes during an execution: the task handed
\* to a step carries the initial task's type, that step's name as stepName
\* and that step's config as stepConfig, and the current data; the task
\* carried from step to step differs from the initial task in its data
\* only, so nothing of an earlier step's name or config reaches a later
\* step.
C30_TaskTypeIsStable ==
  \A e \in Workflows :
    LET x == ex[e]
    IN  /\ x.task.type = x.initial.type
        /\ x.task.stepName = x.initial.stepName
        /\ x.task.stepConfig = x.initial.stepConfig
        /\ x.pc \in StepPcs
             => LET st == x.workflow.steps[x.step]
                IN  /\ x.sent.type = x.initial.type
                    /\ x.sent.stepName = st.name
                    /\ x.sent.stepConfig = st.config
                    /\ x.sent.data = x.task.data

\* the second step is running with its own name and config after the first
\* step, which has another name and config, replaced the data
C30_Witness ==
  \E e \in Workflows :
    /\ ex[e].pc = "processing"
    /\ ex[e].step = 2
    /\ ex[e].sent.stepConfig = ex[e].workflow.steps[2].config
    /\ ex[e].workflow.steps[1].config # ex[e].workflow.steps[2].config
    /\ ex[e].sent.data # ex[e].initial.data
    /\ ex[e].sent.type = "x"

\* C31: when all maxRetries attempts of executeWithRetry raise, it has made
\* exactly maxRetries attempts and maxRetries-1 backoff waits, the wait after
\* failed attempt a being 2^a * 100 ms; it never waits after the last
\* attempt, and the error it raises is the one of the last attempt.
C31_ExhaustedRetries ==
  \A e \in Execs :
    LET x == ex[e]
    IN  /\ x.mode = "retry" /\ x.pc = "sleeping" => x.attempt < x.maxRetries
        /\ x.mode = "retry" /\ x.pc = "done" /\ x.outcome = "threw"
           => /\ x.raises = x.maxRetries
              /\ Len(x.invoked) = x.maxRetries
              /\ x.attempt = x.maxRetries
              /\ Len(x.sleeps) = x.maxRetries - 1
              /\ \A a \in 1..(x.maxRetries - 1) : x.sleeps[a] = Pow2(a) * 100
              /\ x.lastError = x.maxRetries
              /\ x.retval = Rejection

\* three attempts, all raising: waits of 200 and 400 ms, error of attempt 3
C31_Witness ==
  \E e \in Execs :
    /\ ex[e].mode = "retry" /\ ex[e].pc = "done" /\ ex[e].outcome = "threw"
    /\ ex[e].maxRetries = 3 /\ ex[e].raises = 3
    /\ ex[e].sleeps = << 200, 400 >> /\ ex[e].lastError = 3

\* C32: at every point of an execution the results list is a prefix of the
\* workflow's step list, entry j being the record of step j; every step whose
\* agent was called has its one entry once its attempts are over, whatever
\* their outcome; and in an escalated outcome the last entry is the failing
\* step's record and the only one that failed with escalateOnFailure.
C32_ResultsFollowTheSteps ==
  \A e \in Workflows :
    LET x == ex[e]
        steps == x.workflow.steps
    IN  /\ Len(x.results) <= Len(steps)
        /\ \A j \in 1..Len(x.results) :
             /\ x.results[j].step = steps[j].name
             /\ x.results[j].agent = steps[j].agentName
        /\ \A j \in 1..Len(steps) :
             AttemptsOf(x, j) >= 1
               /\ (j < x.step \/ x.pc \in {"escalating", "escSettled", "done"})
             => j <= Len(x.results)
        /\ (x.outcome = "escalated"
              => /\ x.results # << >>
                 /\ EscalatingEntries(x) = {Len(x.results)}
                 /\ (x.handlerCalls > 0
                       => x.escData.previousResults = x.results))

\* C33: an admitted execution moves Started -> (per step: Running ->
\* Succeeded | Failed) -> terminal; while one of its agent calls is in flight
\* only the settling of that call moves it on; once it has its outcome
\* (completed, escalated, or aborted with an error) it calls no agent and
\* changes no counter; and when every agent call settles, every admitted
\* execution reaches its outcome.
PcEdges ==
  { << "idle", "processing" >>, << "idle", "settled" >>, << "idle", "done" >>,
    << "processing", "settled" >>,
    << "settled", "sleeping" >>, << "settled", "stepReturned" >>,
    << "settled", "stepThrew" >>,
    << "sleeping", "processing" >>, << "sleeping", "settled" >>,
    << "stepReturned", "processing" >>, << "stepReturned", "settled" >>,
    << "stepReturned", "escalating" >>, << "stepReturned", "escSettled" >>,
    << "stepReturned", "done" >>,
    << "stepThrew", "done" >>,
    << "escalating", "escSettled" >>, << "escSettled", "done" >> }

TerminalOutcomes == {"completed", "escalated", "raised", "agentNotFound"}

C33_EveryExecutionTerminates ==
  /\ [][\A e \in Execs :
          LET x == ex[e]
              y == ex'[e]
          IN  /\ y.pc # x.pc => << x.pc, y.pc >> \in PcEdges
              /\ y.pc # "done" => y.outcome = "none"
              /\ (y.mode = "workflow" /\ y.pc = "done" /\ y.admitted)
                   => y.outcome \in TerminalOutcomes
              /\ (x.pc \in {"processing", "escalating"} /\ y # x)
                   => /\ y.pc \in {"settled", "escSettled"}
                      /\ y.pend.kind # "none"
                      /\ ag'[x.agent].calls = ag[x.agent].calls + 1
              /\ x.pc = "done"
                   => /\ y = x
                      /\ (\A f \in Execs \ {e} : ex'[f] = ex[f])
                           => ag' = ag /\ activeTasksCount' = activeTasksCount
       ]_vars
  /\ \A e \in Execs : ex[e].admitted ~> ex[e].pc = "done"

\* a three-step execution that went through all its steps, each with one
\* agent call, and has its outcome
C33_Witness ==
  \E e \in Workflows :
    /\ ex[e].admitted /\ ex[e].pc = "done" /\ ex[e].outcome = "completed"
    /\ Len(ex[e].results) = 3 /\ ex[e].invoked = << 1, 2, 3 >>

\* C34: a backoff wait suspends only the execution that is retrying: the
\* waiting execution keeps its admission slot, so the counter is never below
\* the number of waiting executions; a call made during the wait is admitted
\* exactly when the counter, the waiting execution included, is below the
\* cap; and the steps of the other executions leave the waiting one as it is.
Sleeping == {e \in Workflows : ex[e].pc = "sleeping"}

C34_BackoffKeepsTheSlot ==
  [][/\ activeTasksCount >= Cardinality(Sleeping)
     /\ \A a \in Sleeping :
          /\ ex[a].decs = 0
          /\ \A b \in Execs \ {a} :
               /\ ex'[b] # ex[b] => ex'[a] = ex[a]
               /\ (~ex[b].admitted /\ ex'[b].admitted)
                    => /\ activeTasksCount < maxConcurrentTasks
                       /\ ex'[b].decs = 0
                            => activeTasksCount' = activeTasksCount + 1
          /\ (refused' # refused /\ refused'.error = "capacity")
               => activeTasksCount >= maxConcurrentTasks
    ]_vars

\* the first execution is still in its backoff wait, counted in the
\* counter, and the execution admitted during the wait has completed
C34_Witness ==
  /\ ex[1].pc = "sleeping" /\ ex[1].mode = "workflow"
  /\ ex[2].pc = "done" /\ ex[2].outcome = "completed"
  /\ Len(ex[2].results) = Len(ex[2].workflow.steps)
  /\ activeTasksCount = 1

\* C35: agent.state is one field shared by all calls on the agent and shows
\* only the most recent transition: the start of a call sets the busy
\* marker and the end of a call sets idle (success) or error (failure),
\* whether or not other calls on the same agent are still in flight.
CallsInFlight(a) ==
  {e \in Execs : ex[e].agent = a /\ ex[e].pc \in {"processing", "escalating"}}

C35_StateIsLastTransition ==
  [][\A a \in AgentNames :
       /\ ag'[a].calls > ag[a].calls
            => ag'[a].state = IF ag'[a].failed > ag[a].failed THEN "error"
                              ELSE "idle"
       /\ (\E e \in Execs : e \in CallsInFlight(a)' /\ e \notin CallsInFlight(a))
            => ag'[a].state = BusyMarker
    ]_vars

\* one execution's call on agent A has ended and left the state idle or
\* error while another execution's call on A is still in flight
C35_Witness ==
  \E e, f \in Workflows :
    /\ e # f
    /\ ex[e].pc = "processing" /\ ex[e].agent = "A"
    /\ ex[f].pc = "done" /\ ex[f].invoked # << >> /\ ex[f].agent = "A"
    /\ ag["A"].state \in {"idle", "error"}

\* C36: whenever no process call is in flight on an agent, its state is idle
\* or the error marker, never a busy marker: every call that set the busy
\* marker ends by setting idle or error, and a call rejected by validation
\* does not set the busy marker.
C36_NoCallNoBusyMarker ==
  \A a \in AgentNames :
    CallsInFlight(a) = {} => ag[a].state \in {"idle", "error"}

\* an agent with no call in flight whose calls ended in success, in failure
\* and in a rejection by validation, the failure being the last to end
C36_Witness ==
  \E a \in AgentNames :
    /\ CallsInFlight(a) = {}
    /\ ag[a].state = "error"
    /\ ag[a].calls >= 2 /\ ag[a].failed >= 1 /\ ag[a].failed < ag[a].calls
    /\ \E e \in Execs :
         /\ ex[e].mode = "process" /\ ex[e].agent = a
         /\ ex[e].outcome = "threw" /\ ~validateTask(ex[e].sent)

\* C37: an execution uses the workflow definition it resolved when it
\* started: the definition is taken from the registry at admission and
\* never changes afterwards, whatever registerWorkflow does meanwhile; the
\* agent of every step attempt and the escalation handler called are those
\* of that definition.
C37_DefinitionResolvedAtStart ==
  [][\A e \in Execs :
       LET x == ex[e]
           y == ex'[e]
       IN  /\ (~x.admitted /\ y.admitted)
                => y.workflow = workflows[y.wfName]
           /\ x.admitted => y.workflow = x.workflow
           /\ (y.mode = "workflow" /\ Len(y.invoked) > Len(x.invoked))
                => y.agent = y.workflow.steps[y.step].agentName
           /\ (y.mode = "workflow" /\ y.handlerCalls > x.handlerCalls)
                => y.agent = y.workflow.escalationHandler
    ]_vars

\* the second step of a three-step definition is running on its agent B
\* while the registry holds a two-step definition, whose second agent is A,
\* under the same name
C37_Witness ==
  /\ ex[1].pc = "processing" /\ ex[1].step = 2 /\ ex[1].agent = "B"
  /\ Len(ex[1].workflow.steps) = 3
  /\ Len(workflows[ex[1].wfName].steps) = 2
  /\ workflows[ex[1].wfName].steps[2].agentName = "A"

\* C38: for every agent, through process calls, the orchestrator's metric
\* updates and reset() calls, errors never exceeds tasksProcessed and neither
\* counter ever decreases; reset() clears state and history and leaves the
\* metrics as they are.
C38_MetricsAreMonotonic ==
  [][\A a \in AgentNames :
       /\ ag'[a].tasksProcessed >= ag[a].tasksProcessed
       /\ ag'[a].errors >= ag[a].errors
       /\ ag'[a].errors <= ag'[a].tasksProcessed
       /\ (ag'[a].history = << >> /\ ag[a].history # << >>)
            => /\ ag'[a].state = "idle"
               /\ ag'[a].tasksProcessed = ag[a].tasksProcessed
               /\ ag'[a].errors = ag[a].errors
    ]_vars

\* an agent that was reset after calls that succeeded and failed, directly
\* and through executeWithRetry: its history is empty, its metrics are not
C38_Witness ==
  \E a \in AgentNames :
    /\ ag[a].history = << >> /\ ag[a].log # << >>
    /\ ag[a].errors >= 1 /\ ag[a].tasksProcessed > ag[a].calls
    /\ ag[a].errors < ag[a].tasksProcessed

\* C39: in the orchestrator-agent service the status is always ready or
\* paused; it is paused exactly from a /pause to the next /resume, and while
\* it is paused every valid /orchestrate request is answered 503 without a
\* result, while otherwise it is answered 200 with its result; /pause and
\* /resume answer 200 and leave an already paused (ready) service as it is;
\* an invalid request is answered 400 whether the service is paused or not.
ValidBody(b) ==
  /\ b.workflowIsArray
  /\ Len(b.workflow) <= MaxWorkflowSteps
  /\ \A i \in 1..Len(b.workflow) : b.workflow[i] \in 1..MaxStepLength
  /\ b.input \in 0..MaxInputLength

Switches(log) == {i \in 1..Len(log) : log[i].route \in {"pause", "resume"}}
PausedByLog(log) ==
  \E i \in Switches(log) :
    log[i].route = "pause" /\ \A k \in Switches(log) : k <= i

C39_PauseAndResume ==
  [][LET st == orchestratorAgent.state
         new == orchestratorAgent'
         r == new.response
     IN  /\ new.state.status \in {"ready", "paused"}
         /\ isPaused(new.state) <=> PausedByLog(new.log)
         /\ Len(new.log) > Len(orchestratorAgent.log) =>
              /\ r.route = "pause"
                   => /\ r.code = 200 /\ r.status = "paused"
                      /\ isPaused(new.state)
                      /\ isPaused(st) => new.state = st
              /\ r.route = "resume"
                   => /\ r.code = 200 /\ r.status = "ready"
                      /\ ~isPaused(new.state)
                      /\ ~isPaused(st) => new.state = st
              /\ r.route = "orchestrate"
                   => /\ new.state = st
                      /\ ~ValidBody(new.body)
                           => r.code = 400 /\ r.result = NoResult
                      /\ ValidBody(new.body) /\ isPaused(st)
                           => r.code = 503 /\ r.result = NoResult
                      /\ ValidBody(new.body) /\ ~isPaused(st)
                           => /\ r.code = 200 /\ r.result # NoResult
                              /\ r.steps = Len(new.body.workflow)
    ]_vars

\* after /pause an invalid request was answered 400 and a valid one 503;
\* after /resume a valid request with a two-step workflow got its result
C39_Witness ==
  /\ orchestratorAgent.log =
       << [route |-> "pause", code |-> 200],
          [route |-> "orchestrate", code |-> 400],
          [route |-> "orchestrate", code |-> 503],
          [route |-> "resume", code |-> 200],
          [route |-> "orchestrate", code |-> 200] >>
  /\ orchestratorAgent.response.steps = 2
====
